---- MODULE Spec2Model ----
(***************************************************************************)
(* Model of the feature-ablation notebook                                  *)
(* multimodal_ML_brain_age_ridge_feat_selection_cleaned.ipynb:             *)
(*   train_model, predict_ages, evaluate_feature_ablation, calculate_mae   *)
(* and the MAE report loop.                                                *)
(*                                                                         *)
(* Spec     : one call of evaluate_feature_ablation, statement by          *)
(*            statement, on inputs drawn from small sets.                  *)
(* SpecMae  : one call of calculate_mae followed by the report loop.       *)
(*                                                                         *)
(* Python values are modelled by what the claims can observe of them:      *)
(*   a DataFrame   [name, cols, rows, dtype]  (rows: the subject ids)      *)
(*   a list        [tag |-> "list", items |-> <<...>>]                      *)
(*   None          [tag |-> "None"]                                         *)
(*   an exception  [tag |-> "error", type, msg, at, iter]                   *)
(***************************************************************************)
EXTENDS Integers, Sequences, FiniteSets, TLC

VARIABLES
    \* ---- evaluate_feature_ablation: arguments and module globals
    df_train_control, df_test_disease, df_test_control,
    model_type, scalar_type,
    groups,
    \* ---- evaluate_feature_ablation: locals and control
    pc, i,
    X_train_control, X_test_disease, y_train_control,
    model, scaler,
    results_disease, results_control,
    returned, error,
    calls,
    \* ---- calculate_mae and the report loop
    mpc, predictions_list, y_test, k, mae_results, mae_returned, mae_error,
    printed

evalVars == <<df_train_control, df_test_disease, df_test_control,
              model_type, scalar_type, groups, pc, i,
              X_train_control, X_test_disease, y_train_control,
              model, scaler, results_disease, results_control,
              returned, error, calls>>

maeVars == <<mpc, predictions_list, y_test, k, mae_results, mae_returned,
             mae_error, printed>>

vars == <<evalVars, maeVars>>

-----------------------------------------------------------------------------
(* Bounds of the model *)

\* rows of the training cohort run over 0..MaxTrainRows
MaxTrainRows == 6

\* rows of an evaluation cohort run over 0..MaxTestRows
MaxTestRows == 2

\* prediction arrays and the ground truth have 0..MaxLen elements
MaxLen == 2

\* calculate_mae gets 0..MaxPreds prediction arrays
MaxPreds == 2

-----------------------------------------------------------------------------
(* Python values *)

None == [tag |-> "None"]

PyList(items) == [tag |-> "list", items |-> items]

Append_(lst, x) == PyList(Append(lst.items, x))

PyError(type, msg, at, iter) ==
    [tag |-> "error", type |-> type, msg |-> msg, at |-> at, iter |-> iter]

Range(s) == {s[j] : j \in 1..Len(s)}

-----------------------------------------------------------------------------
(* Column names *)

\* the three non-feature columns dropped in every iteration
NonFeature == <<"Age at Visit", "BD#", "Dx">>

\* the names bound by "from imaging_features import ..." : each is a list of
\* column names; the lists are fixed, non-empty and pairwise disjoint
imaging_features ==
    [hyperintensities_flair   |-> <<"flair_1">>,
     dti                      |-> <<"dti_1", "dti_2">>,
     cbf                      |-> <<"cbf_1">>,
     resting_state_activation |-> <<"rs_1">>,
     ventricular_volume       |-> <<"vent_1">>,
     surface_area             |-> <<"sa_1">>,
     cortical_thickness       |-> <<"ct_1", "ct_2">>]

\* fault variant of LoopOrder: the first two groups exchanged
LoopOrderSwapped ==
    <<"dti", "hyperintensities_flair", "cbf", "resting_state_activation",
      "ventricular_volume", "surface_area", "cortical_thickness">>

\* the list the loop of evaluate_feature_ablation iterates over
LoopOrder ==
    <<"hyperintensities_flair", "dti", "cbf", "resting_state_activation",
      "ventricular_volume", "surface_area", "cortical_thickness">>

\* the group-name list used for reporting
feature_sets ==
    <<"hyperintensities_flair", "dti", "cbf", "resting_state_activation",
      "ventricular_volume", "surface_area", "cortical_thickness">>

NGroups == Len(LoopOrder)

FeatureCols == UNION {Range(imaging_features[g]) : g \in DOMAIN imaging_features}

AllCols == Range(NonFeature) \cup FeatureCols

-----------------------------------------------------------------------------
(* DataFrames *)

\* a cohort table: its name, its column names, its rows (subject ids, in
\* row order) and whether every value is coercible to float64
Table(name, cols, n, dtype) ==
    [name |-> name, cols |-> cols, rows |-> [j \in 1..n |-> j], dtype |-> dtype]

\* fault variant of drop: inplace=True, the frame itself loses the columns
drop_inplace(df, labels) ==
    IF Range(labels) \subseteq df.cols
    THEN [tag |-> "ok",
          out |-> [df EXCEPT !.cols = @ \ Range(labels)],
          self |-> [df EXCEPT !.cols = @ \ Range(labels)]]
    ELSE [tag |-> "raise", type |-> "KeyError",
          msg |-> <<"not found in axis", Range(labels) \ df.cols>>,
          self |-> df]

\* DataFrame.drop(labels, axis=1) without inplace: a KeyError when a label is
\* no column, else a new frame; self is the frame the method was called on,
\* as it is after the call
drop(df, labels) ==
    IF Range(labels) \subseteq df.cols
    THEN [tag |-> "ok",
          out |-> [df EXCEPT !.cols = @ \ Range(labels)],
          self |-> df]
    ELSE [tag |-> "raise", type |-> "KeyError",
          msg |-> <<"not found in axis", Range(labels) \ df.cols>>,
          self |-> df]

\* DataFrame.astype('float64'): a ValueError on a value that is no number,
\* else a new frame of floats
astype(df) ==
    IF df.dtype = "object"
    THEN [tag |-> "raise", type |-> "ValueError",
          msg |-> <<"could not convert string to float", df.name>>]
    ELSE [tag |-> "ok", out |-> [df EXCEPT !.dtype = "float64"]]

\* df[col]: a KeyError when col is no column, else the column as a Series
getitem(df, col) ==
    IF col \in df.cols
    THEN [tag |-> "ok",
          out |-> [name |-> df.name, col |-> col, rows |-> df.rows]]
    ELSE [tag |-> "raise", type |-> "KeyError", msg |-> <<"KeyError", col>>]

\* fault variant of drop_astype: only the group's columns are dropped, the
\* three non-feature columns stay among the features
drop_group_only(df, feature) ==
    LET d == drop(df, feature) IN
    IF d.tag = "raise" THEN d
    ELSE LET a == astype(d.out) IN
         IF a.tag = "raise" THEN a @@ [self |-> d.self]
         ELSE [tag |-> "ok", out |-> a.out, self |-> d.self]

\* df.drop(NonFeature + feature, axis=1).astype('float64')
drop_astype(df, feature) ==
    LET d == drop(df, NonFeature \o feature) IN
    IF d.tag = "raise" THEN d
    ELSE LET a == astype(d.out) IN
         IF a.tag = "raise" THEN a @@ [self |-> d.self]
         ELSE [tag |-> "ok", out |-> a.out, self |-> d.self]

-----------------------------------------------------------------------------
(* train_model *)

\* RepeatedKFold(n_splits=5, ...)
n_splits == 5

\* scaler = MinMaxScaler() if scaler_type == 'minmax' else StandardScaler()
scaler_for(scaler_type) ==
    IF scaler_type = "minmax" THEN "MinMaxScaler" ELSE "StandardScaler"

\* the search of the hyperparameters splits the training rows into n_splits
\* folds, which needs that many rows
cv_fits(X) == Len(X.rows) >= n_splits

\* the fitted estimator: what it was fitted on
Fitted(kind, X) ==
    [kind |-> kind, feature_names_in_ |-> X.cols, fit_on |-> X.name,
     n_samples |-> Len(X.rows)]

\* fault variant of select_model: no else branch, ridge by default
select_model_default(mtype) ==
    IF mtype = "svm" THEN "SVR" ELSE "Ridge"

\* if model_type == 'ridge': ... elif model_type == 'svm': ... else: raise
select_model(mtype) ==
    IF mtype = "ridge" THEN "Ridge"
    ELSE IF mtype = "svm" THEN "SVR"
    ELSE "raise"

\* the places inside train_model an exception comes from
TrainSites == {"scaler.fit_transform", "cv", "model_type"}

train_model(X_train, y_train, mtype, stype) ==
    LET skind == scaler_for(stype)
        mkind == select_model(mtype)
    IN
    IF Len(X_train.rows) = 0 \/ X_train.cols = {}
    THEN [tag |-> "raise", type |-> "ValueError",
          msg |-> <<"Found array with 0 sample(s)", skind>>,
          at |-> "scaler.fit_transform"]
    ELSE IF mkind = "raise"
    THEN [tag |-> "raise", type |-> "ValueError",
          msg |-> <<"Unsupported model type: ", mtype>>, at |-> "model_type"]
    ELSE IF ~cv_fits(X_train)
    THEN [tag |-> "raise", type |-> "ValueError",
          msg |-> <<"Cannot have number of splits greater than the number of samples", n_splits>>,
          at |-> "cv"]
    ELSE [tag |-> "ok",
          model |-> Fitted(mkind, X_train) @@ [target |-> y_train],
          scaler |-> Fitted(skind, X_train)]

-----------------------------------------------------------------------------
(* predict_ages *)

\* fault variant of predict_ages: scaler.fit_transform(X) in place of
\* scaler.transform(X), the scaler is fitted again on the table it transforms
predict_ages_refit(m, s, X) ==
    IF Len(X.rows) = 0
    THEN [tag |-> "raise", type |-> "ValueError",
          msg |-> <<"Found array with 0 sample(s)", s.kind>>]
    ELSE IF X.cols # m.feature_names_in_
    THEN [tag |-> "raise", type |-> "ValueError",
          msg |-> <<"The feature names should match those that were passed during fit", s.kind>>]
    ELSE [tag |-> "ok",
          out |-> [j \in 1..Len(X.rows) |->
                     [row |-> X.rows[j], table |-> X.name,
                      model |-> m, scaler |-> Fitted(s.kind, X)]]]

\* fault variant of predict_ages: the predictions in reverse row order
predict_ages_reversed(m, s, X) ==
    IF Len(X.rows) = 0
    THEN [tag |-> "raise", type |-> "ValueError",
          msg |-> <<"Found array with 0 sample(s)", s.kind>>]
    ELSE IF X.cols # s.feature_names_in_ \/ X.cols # m.feature_names_in_
    THEN [tag |-> "raise", type |-> "ValueError",
          msg |-> <<"The feature names should match those that were passed during fit", s.kind>>]
    ELSE [tag |-> "ok",
          out |-> [j \in 1..Len(X.rows) |->
                     [row |-> X.rows[Len(X.rows) + 1 - j], table |-> X.name,
                      model |-> m, scaler |-> s]]]

\* scaler.transform(X) fails on a table without rows or with other columns
\* than the scaler was fitted on; else one prediction per row of X, in row
\* order: which subject it is for, which table the row came from, and the
\* model and scaler that produced it (np.round changes the values, not their
\* positions)
predict_ages(m, s, X) ==
    IF Len(X.rows) = 0
    THEN [tag |-> "raise", type |-> "ValueError",
          msg |-> <<"Found array with 0 sample(s)", s.kind>>]
    ELSE IF X.cols # s.feature_names_in_ \/ X.cols # m.feature_names_in_
    THEN [tag |-> "raise", type |-> "ValueError",
          msg |-> <<"The feature names should match those that were passed during fit", s.kind>>]
    ELSE [tag |-> "ok",
          out |-> [j \in 1..Len(X.rows) |->
                     [row |-> X.rows[j], table |-> X.name,
                      model |-> m, scaler |-> s]]]

-----------------------------------------------------------------------------
(* evaluate_feature_ablation: the inputs of a call *)

ModelTypes == {"ridge", "svm", "lasso"}

ScalerTypes == {"minmax", "standard", "robust"}

\* a cohort table as the caller may pass it: the full schema with 0..n rows,
\* or n rows with a column of a group missing, the diagnosis column missing,
\* or a value that is no number
Cohorts(name, n) ==
    {Table(name, AllCols, r, "numeric") : r \in 0..n}
    \cup {Table(name, AllCols \ {"cbf_1"}, n, "numeric"),
          Table(name, AllCols \ {"Dx"}, n, "numeric"),
          Table(name, AllCols, n, "object")}

MaeIdle ==
    /\ mpc = "idle"
    /\ predictions_list = <<>>
    /\ y_test = None
    /\ k = 0
    /\ mae_results = None
    /\ mae_returned = None
    /\ mae_error = None
    /\ printed = <<>>

Init ==
    /\ df_train_control \in Cohorts("df_train_control", MaxTrainRows)
    /\ df_test_disease \in Cohorts("df_test_disease", MaxTestRows)
    /\ df_test_control \in {None} \cup Cohorts("df_test_control", MaxTestRows)
    /\ model_type \in ModelTypes
    /\ scalar_type \in ScalerTypes
    /\ groups = imaging_features
    /\ pc = "call"
    /\ i = 0
    /\ X_train_control = None
    /\ X_test_disease = None
    /\ y_train_control = None
    /\ model = None
    /\ scaler = None
    /\ results_disease = None
    /\ results_control = None
    /\ returned = None
    /\ error = None
    /\ calls = <<>>
    /\ MaeIdle

-----------------------------------------------------------------------------
(* evaluate_feature_ablation: the statements *)

\* the group of the current iteration: for feature in [...]
feature == groups[LoopOrder[i]]

\* fault variant of Raise: the exception is swallowed and the loop goes on
\* with the next group
SkipGroup(e) ==
    /\ pc' = IF i < NGroups THEN "l140" ELSE "l153"
    /\ i' = IF i < NGroups THEN i + 1 ELSE i
    /\ UNCHANGED <<df_train_control, df_test_disease, df_test_control,
                   model_type, scalar_type, groups,
                   X_train_control, X_test_disease, y_train_control,
                   model, scaler, results_disease, results_control,
                   returned, error, calls>>

\* an exception leaves the function: nothing is returned, no later statement
\* runs
Raise(e) ==
    /\ pc' = "raised"
    /\ error' = e
    /\ UNCHANGED <<df_train_control, df_test_disease, df_test_control,
                   model_type, scalar_type, groups, i,
                   X_train_control, X_test_disease, y_train_control,
                   model, scaler, results_disease, results_control,
                   returned, calls>>

\* line 136: results_disease = []
new_results_disease == PyList(<<>>)

\* fault variant of new_results_control: None until a control cohort is seen
no_results_control == None

\* line 137: results_control = []

new_results_control == PyList(<<>>)

\* lines 136-139: the two result lists, and the loop starts
Enter ==
    /\ pc = "call"
    /\ UNCHANGED maeVars
    /\ results_disease' = new_results_disease
    /\ results_control' = new_results_control
    /\ i' = 1
    /\ pc' = "l140"
    /\ UNCHANGED <<df_train_control, df_test_disease, df_test_control,
                   model_type, scalar_type, groups,
                   X_train_control, X_test_disease, y_train_control,
                   model, scaler, returned, error, calls>>

\* line 140: X_train_control = df_train_control.drop(...).astype('float64')
DropTrain ==
    /\ pc = "l140"
    /\ UNCHANGED maeVars
    /\ LET r == drop_astype(df_train_control, feature) IN
       IF r.tag = "raise"
       THEN Raise(PyError(r.type, r.msg, "l140", i))
       ELSE /\ X_train_control' = r.out
            /\ df_train_control' = r.self
            /\ pc' = "l141"
            /\ UNCHANGED <<df_test_disease, df_test_control,
                           model_type, scalar_type, groups, i,
                           X_test_disease, y_train_control,
                           model, scaler, results_disease, results_control,
                           returned, error, calls>>

\* line 141: X_test_disease = df_test_disease.drop(...).astype('float64')
DropDisease ==
    /\ pc = "l141"
    /\ UNCHANGED maeVars
    /\ LET r == drop_astype(df_test_disease, feature) IN
       IF r.tag = "raise"
       THEN Raise(PyError(r.type, r.msg, "l141", i))
       ELSE /\ X_test_disease' = r.out
            /\ df_test_disease' = r.self
            /\ pc' = "l142"
            /\ UNCHANGED <<df_train_control, df_test_control,
                           model_type, scalar_type, groups, i,
                           X_train_control, y_train_control,
                           model, scaler, results_disease, results_control,
                           returned, error, calls>>

\* line 142: y_train_control = df_train_control['Age at Visit']
SelectTarget ==
    /\ pc = "l142"
    /\ UNCHANGED maeVars
    /\ LET r == getitem(df_train_control, "Age at Visit") IN
       IF r.tag = "raise"
       THEN Raise(PyError(r.type, r.msg, "l142", i))
       ELSE /\ y_train_control' = r.out
            /\ pc' = "l144"
            /\ UNCHANGED <<df_train_control, df_test_disease, df_test_control,
                           model_type, scalar_type, groups, i,
                           X_train_control, X_test_disease,
                           model, scaler, results_disease, results_control,
                           returned, error, calls>>

\* fault variant of Train: a model left by an earlier iteration is kept
\* instead of being trained again
TrainOnce ==
    /\ pc = "l144"
    /\ UNCHANGED maeVars
    /\ LET r == IF model # None
                THEN [tag |-> "ok", model |-> model, scaler |-> scaler]
                ELSE train_model(X_train_control, y_train_control,
                                 model_type, scalar_type) IN
       IF r.tag = "raise"
       THEN Raise(PyError(r.type, r.msg, r.at, i))
       ELSE /\ model' = r.model
            /\ scaler' = r.scaler
            /\ calls' = Append(calls, [fn |-> "train_model", iter |-> i,
                                       X |-> X_train_control.name,
                                       cols |-> X_train_control.cols,
                                       y |-> y_train_control,
                                       model |-> r.model, scaler |-> r.scaler])
            /\ pc' = "l145"
            /\ UNCHANGED <<df_train_control, df_test_disease, df_test_control,
                           model_type, scalar_type, groups, i,
                           X_train_control, X_test_disease, y_train_control,
                           results_disease, results_control,
                           returned, error>>

\* line 144: model, scaler = train_model(X_train_control, y_train_control, ...)
Train ==
    /\ pc = "l144"
    /\ UNCHANGED maeVars
    /\ LET r == train_model(X_train_control, y_train_control,
                            model_type, scalar_type) IN
       IF r.tag = "raise"
       THEN Raise(PyError(r.type, r.msg, r.at, i))
       ELSE /\ model' = r.model
            /\ scaler' = r.scaler
            /\ calls' = Append(calls, [fn |-> "train_model", iter |-> i,
                                       X |-> X_train_control.name,
                                       cols |-> X_train_control.cols,
                                       y |-> y_train_control,
                                       model |-> r.model, scaler |-> r.scaler])
            /\ pc' = "l145"
            /\ UNCHANGED <<df_train_control, df_test_disease, df_test_control,
                           model_type, scalar_type, groups, i,
                           X_train_control, X_test_disease, y_train_control,
                           results_disease, results_control,
                           returned, error>>

\* lines 145-146: y_pred_disease = predict_ages(model, scaler, X_test_disease)
\*                results_disease.append(y_pred_disease)
PredictDisease ==
    /\ pc = "l145"
    /\ UNCHANGED maeVars
    /\ LET r == predict_ages(model, scaler, X_test_disease) IN
       IF r.tag = "raise"
       THEN Raise(PyError(r.type, r.msg, "l145", i))
       ELSE /\ results_disease' = Append_(results_disease, r.out)
            /\ calls' = Append(calls, [fn |-> "predict_ages", iter |-> i,
                                       X |-> X_test_disease.name,
                                       cols |-> X_test_disease.cols,
                                       model |-> model, scaler |-> scaler])
            /\ pc' = "l148"
            /\ UNCHANGED <<df_train_control, df_test_disease, df_test_control,
                           model_type, scalar_type, groups, i,
                           X_train_control, X_test_disease, y_train_control,
                           model, scaler, results_control,
                           returned, error>>

\* the end of an iteration: the next group, or the return statement
NextIteration ==
    /\ pc' = IF i < NGroups THEN "l140" ELSE "l153"
    /\ i' = IF i < NGroups THEN i + 1 ELSE i

\* line 148, df_test_control is None: nothing is done for the control cohort
SkipControl ==
    /\ pc = "l148"
    /\ UNCHANGED maeVars
    /\ df_test_control = None
    /\ NextIteration
    /\ UNCHANGED <<df_train_control, df_test_disease, df_test_control,
                   model_type, scalar_type, groups,
                   X_train_control, X_test_disease, y_train_control,
                   model, scaler, results_disease, results_control,
                   returned, error, calls>>

\* lines 148-151, df_test_control is not None: drop, predict, append
PredictControl ==
    /\ pc = "l148"
    /\ UNCHANGED maeVars
    /\ df_test_control # None
    /\ LET d == drop_astype(df_test_control, feature) IN
       IF d.tag = "raise"
       THEN Raise(PyError(d.type, d.msg, "l149", i))
       ELSE LET r == predict_ages(model, scaler, d.out) IN
            IF r.tag = "raise"
            THEN Raise(PyError(r.type, r.msg, "l150", i))
            ELSE /\ results_control' = Append_(results_control, r.out)
                 /\ df_test_control' = d.self
                 /\ calls' = Append(calls, [fn |-> "predict_ages", iter |-> i,
                                            X |-> d.out.name,
                                            cols |-> d.out.cols,
                                            model |-> model, scaler |-> scaler])
                 /\ NextIteration
                 /\ UNCHANGED <<df_train_control, df_test_disease,
                                model_type, scalar_type, groups,
                                X_train_control, X_test_disease,
                                y_train_control, model, scaler,
                                results_disease, returned, error>>

\* line 153: return results_disease, results_control
Return ==
    /\ pc = "l153"
    /\ UNCHANGED maeVars
    /\ returned' = [tag |-> "tuple", disease |-> results_disease,
                    control |-> results_control]
    /\ pc' = "done"
    /\ UNCHANGED <<df_train_control, df_test_disease, df_test_control,
                   model_type, scalar_type, groups, i,
                   X_train_control, X_test_disease, y_train_control,
                   model, scaler, results_disease, results_control,
                   error, calls>>

Next ==
    \/ Enter
    \/ DropTrain
    \/ DropDisease
    \/ SelectTarget
    \/ Train
    \/ PredictDisease
    \/ SkipControl
    \/ PredictControl
    \/ Return

Spec == Init /\ [][Next]_vars

-----------------------------------------------------------------------------
(* evaluate_feature_ablation with the iterations taken in any order *)

\* The statements of an iteration are those of the loop (DropTrain ... Return,
\* with the locals of the function, which keep what the iteration before left
\* in them); only the choice of the group an iteration works on is free: any
\* group no iteration has been started for.

\* the indices of the groups whose iteration has started, in the order started
RECURSIVE Started(_)
Started(log) ==
    IF log = <<>> THEN <<>>
    ELSE IF log[1].fn = "train_model"
         THEN <<log[1].iter>> \o Started(Tail(log))
         ELSE Started(Tail(log))

\* the groups no iteration was started for
Remaining == (1..NGroups) \ (Range(Started(calls)) \cup {i})

\* the call, on tables the loop can succeed on or fails on at once
InitAnyOrder ==
    /\ df_train_control \in
          {Table("df_train_control", AllCols, MaxTrainRows, "numeric"),
           Table("df_train_control", AllCols, 0, "numeric"),
           Table("df_train_control", AllCols \ {"cbf_1"}, MaxTrainRows, "numeric")}
    /\ df_test_disease = Table("df_test_disease", AllCols, MaxTestRows, "numeric")
    /\ df_test_control \in
          {None, Table("df_test_control", AllCols, MaxTestRows, "numeric")}
    /\ \E choice \in {<<"ridge", "minmax">>, <<"svm", "standard">>} :
          model_type = choice[1] /\ scalar_type = choice[2]
    /\ groups = imaging_features
    /\ pc = "call"
    /\ i = 0
    /\ X_train_control = None
    /\ X_test_disease = None
    /\ y_train_control = None
    /\ model = None
    /\ scaler = None
    /\ results_disease = None
    /\ results_control = None
    /\ returned = None
    /\ error = None
    /\ calls = <<>>
    /\ MaeIdle

\* lines 136-139, the first iteration on any group
EnterAny ==
    /\ pc = "call"
    /\ UNCHANGED maeVars
    /\ results_disease' = new_results_disease
    /\ results_control' = new_results_control
    /\ i' \in 1..NGroups
    /\ pc' = "l140"
    /\ UNCHANGED <<df_train_control, df_test_disease, df_test_control,
                   model_type, scalar_type, groups,
                   X_train_control, X_test_disease, y_train_control,
                   model, scaler, returned, error, calls>>

\* the end of an iteration: any remaining group, or the return statement
NextAnyGroup ==
    IF Remaining = {}
    THEN pc' = "l153" /\ i' = i
    ELSE pc' = "l140" /\ i' \in Remaining

\* line 148, df_test_control is None
SkipControlAny ==
    /\ pc = "l148"
    /\ UNCHANGED maeVars
    /\ df_test_control = None
    /\ NextAnyGroup
    /\ UNCHANGED <<df_train_control, df_test_disease, df_test_control,
                   model_type, scalar_type, groups,
                   X_train_control, X_test_disease, y_train_control,
                   model, scaler, results_disease, results_control,
                   returned, error, calls>>

\* lines 148-151, df_test_control is not None
PredictControlAny ==
    /\ pc = "l148"
    /\ UNCHANGED maeVars
    /\ df_test_control # None
    /\ LET d == drop_astype(df_test_control, feature) IN
       IF d.tag = "raise"
       THEN Raise(PyError(d.type, d.msg, "l149", i))
       ELSE LET r == predict_ages(model, scaler, d.out) IN
            IF r.tag = "raise"
            THEN Raise(PyError(r.type, r.msg, "l150", i))
            ELSE /\ results_control' = Append_(results_control, r.out)
                 /\ df_test_control' = d.self
                 /\ calls' = Append(calls, [fn |-> "predict_ages", iter |-> i,
                                            X |-> d.out.name,
                                            cols |-> d.out.cols,
                                            model |-> model, scaler |-> scaler])
                 /\ NextAnyGroup
                 /\ UNCHANGED <<df_train_control, df_test_disease,
                                model_type, scalar_type, groups,
                                X_train_control, X_test_disease,
                                y_train_control, model, scaler,
                                results_disease, returned, error>>

NextAnyOrder ==
    \/ EnterAny
    \/ DropTrain
    \/ DropDisease
    \/ SelectTarget
    \/ Train
    \/ PredictDisease
    \/ SkipControlAny
    \/ PredictControlAny
    \/ Return

SpecAnyOrder == InitAnyOrder /\ [][NextAnyOrder]_vars

-----------------------------------------------------------------------------
(* calculate_mae: numpy and pandas arithmetic *)

\* ages, in years
AgeValues == {40, 41}

Arrays(n) == UNION {[1..m -> AgeValues] : m \in 0..n}

\* a float, as the exact quotient num/den, or nan
Float(num, den) == [tag |-> "float", num |-> num, den |-> den]

NaN == [tag |-> "nan"]

\* predictions - y_test: numpy broadcasts two one-dimensional arrays when the
\* lengths are equal or one of them is 1, and fails otherwise; when y_test is a
\* pandas Series the result is wrapped with the index of y_test, which fails
\* unless the result has the length of y_test
broadcast_len(m, n) == IF m = n THEN m ELSE IF m = 1 THEN n ELSE IF n = 1 THEN m ELSE -1

subtract(predictions, y) ==
    LET m == Len(predictions)
        n == Len(y.vals)
        len == broadcast_len(m, n)
    IN
    IF len = -1
    THEN [tag |-> "raise", type |-> "ValueError",
          msg |-> <<"operands could not be broadcast together with shapes", <<m, n>>>>]
    ELSE IF y.kind = "Series" /\ len # n
    THEN [tag |-> "raise", type |-> "ValueError",
          msg |-> <<"Length of values does not match length of index", <<len, n>>>>]
    ELSE [tag |-> "ok",
          out |-> [j \in 1..len |->
                     predictions[IF m = 1 THEN 1 ELSE j]
                     - y.vals[IF n = 1 THEN 1 ELSE j]]]

\* fault variant of abs: the signed difference
signed(x) == x

\* np.abs, elementwise
abs(x) == IF x < 0 THEN -x ELSE x

np_abs(a) == [j \in 1..Len(a) |-> abs(a[j])]

RECURSIVE sum(_)
sum(a) == IF Len(a) = 0 THEN 0 ELSE a[1] + sum(Tail(a))

\* np.mean: the sum over the number of elements; nan for no element
np_mean(a) == IF Len(a) = 0 THEN NaN ELSE Float(sum(a), Len(a))

\* f"{mae:.3f}": the value in thousandths, rounded to the nearest
format3(x) ==
    IF x.tag = "nan" THEN [text |-> "nan"]
    ELSE [text |-> "fixed3", thousandths |-> (2000 * x.num + x.den) \div (2 * x.den)]

-----------------------------------------------------------------------------
(* calculate_mae and the report loop: the inputs *)

\* the lists calculate_mae is called with: up to MaxPreds prediction arrays of
\* any length, or one array per feature group, as evaluate_feature_ablation
\* returns them
PredictionLists ==
    UNION {[1..m -> Arrays(MaxLen)] : m \in 0..MaxPreds}
    \cup [1..NGroups -> {<<40>>, <<41>>}]

EvalIdle ==
    /\ df_train_control = None
    /\ df_test_disease = None
    /\ df_test_control = None
    /\ model_type = "ridge"
    /\ scalar_type = "minmax"
    /\ groups = imaging_features
    /\ pc = "idle"
    /\ i = 0
    /\ X_train_control = None
    /\ X_test_disease = None
    /\ y_train_control = None
    /\ model = None
    /\ scaler = None
    /\ results_disease = None
    /\ results_control = None
    /\ returned = None
    /\ error = None
    /\ calls = <<>>

InitMae ==
    /\ EvalIdle
    /\ mpc = "call"
    /\ predictions_list \in PredictionLists
    /\ y_test \in {[kind |-> kd, vals |-> v] :
                      kd \in {"ndarray", "Series"}, v \in Arrays(MaxLen)}
    /\ k = 0
    /\ mae_results = None
    /\ mae_returned = None
    /\ mae_error = None
    /\ printed = <<>>

-----------------------------------------------------------------------------
(* calculate_mae: the statements *)

\* line 167: mae_results = []
MaeEnter ==
    /\ mpc = "call"
    /\ mae_results' = PyList(<<>>)
    /\ k' = 1
    /\ mpc' = "l168"
    /\ UNCHANGED <<predictions_list, y_test, mae_returned, mae_error, printed>>
    /\ UNCHANGED evalVars

\* fault variant of append_mae: the new score goes first
prepend_mae(lst, x) == PyList(<<x>> \o lst.items)

\* line 170: mae_results.append(mae)
append_mae(lst, x) == Append_(lst, x)

\* lines 168-170: one iteration of the loop over predictions_list
MaeIterate ==
    /\ mpc = "l168"
    /\ k <= Len(predictions_list)
    /\ LET d == subtract(predictions_list[k], y_test) IN
       IF d.tag = "raise"
       THEN /\ mpc' = "raised"
            /\ mae_error' = PyError(d.type, d.msg, "l169", k)
            /\ UNCHANGED <<k, mae_results>>
       ELSE /\ mae_results' = append_mae(mae_results, np_mean(np_abs(d.out)))
            /\ k' = k + 1
            /\ UNCHANGED <<mpc, mae_error>>
    /\ UNCHANGED <<predictions_list, y_test, mae_returned, printed>>
    /\ UNCHANGED evalVars

\* line 171: return mae_results
MaeReturn ==
    /\ mpc = "l168"
    /\ k > Len(predictions_list)
    /\ mae_returned' = mae_results
    /\ mpc' = "l339"
    /\ UNCHANGED <<predictions_list, y_test, k, mae_results, mae_error, printed>>
    /\ UNCHANGED evalVars

\* line 339: print("MAE when the following feature set is ablated/omitted:")
PrintHeader ==
    /\ mpc = "l339"
    /\ printed' = <<>>
    /\ k' = 1
    /\ mpc' = "l340"
    /\ UNCHANGED <<predictions_list, y_test, mae_results, mae_returned, mae_error>>
    /\ UNCHANGED evalVars

\* zip stops at the shorter of its arguments
zip_len(a, b) == IF Len(a) <= Len(b) THEN Len(a) ELSE Len(b)

\* lines 340-341: for f, mae in zip(feature_sets, mae_results): print(...)
PrintLine ==
    /\ mpc = "l340"
    /\ k <= zip_len(feature_sets, mae_returned.items)
    /\ printed' = Append(printed, [name |-> feature_sets[k],
                                   value |-> format3(mae_returned.items[k])])
    /\ k' = k + 1
    /\ UNCHANGED <<mpc, predictions_list, y_test, mae_results, mae_returned,
                   mae_error>>
    /\ UNCHANGED evalVars

ReportDone ==
    /\ mpc = "l340"
    /\ k > zip_len(feature_sets, mae_returned.items)
    /\ mpc' = "done"
    /\ UNCHANGED <<predictions_list, y_test, k, mae_results, mae_returned,
                   mae_error, printed>>
    /\ UNCHANGED evalVars

NextMae ==
    \/ MaeEnter
    \/ MaeIterate
    \/ MaeReturn
    \/ PrintHeader
    \/ PrintLine
    \/ ReportDone

SpecMae == InitMae /\ [][NextMae]_vars

-----------------------------------------------------------------------------
(* Properties of evaluate_feature_ablation (checked under Spec) *)

\* the feature columns of the training cohort
TrainFeatures == df_train_control.cols \ Range(NonFeature)

\* every prediction of res was made by a model fitted without the columns of
\* the group named g, and with every other feature column
MadeWithout(res, g) ==
    /\ Len(res) >= 1
    /\ \A j \in 1..Len(res) :
          /\ res[j].model.feature_names_in_ = TrainFeatures \ Range(groups[g])
          /\ res[j].scaler.feature_names_in_ = TrainFeatures \ Range(groups[g])

\* lst has one entry per name of feature_sets, entry idx made without the
\* idx-th group
OrderedByGroup(lst) ==
    /\ lst.tag = "list"
    /\ Len(lst.items) = 7
    /\ Len(lst.items) = Len(feature_sets)
    /\ \A idx \in 1..Len(lst.items) : MadeWithout(lst.items[idx], feature_sets[idx])

\* C1, as claimed: after a successful call BOTH returned lists have exactly 7
\* entries in the order of feature_sets, whether or not a control cohort was
\* supplied.
C1_AsClaimed ==
    pc = "done" =>
        /\ OrderedByGroup(returned.disease)
        /\ OrderedByGroup(returned.control)

\* C1, amended: after a successful call the disease list has exactly 7 entries
\* and entry idx was predicted with the idx-th group of feature_sets withheld;
\* the control list has the same shape when a control cohort was supplied and
\* is the empty list when it was not.
C1_GroupOrder ==
    pc = "done" =>
        /\ OrderedByGroup(returned.disease)
        /\ df_test_control # None => OrderedByGroup(returned.control)
        /\ df_test_control = None => returned.control = PyList(<<>>)

C1_Witness ==
    /\ pc = "done"
    /\ df_test_control # None
    /\ Len(returned.control.items) = 7
    /\ Len(returned.disease.items) = 7

\* C2: with df_test_control None the control list is the empty list from the
\* moment it is created to the return, the returned second value is that
\* empty list (a list, not None), predict_ages is never called on a control
\* table, and the returned disease list still has one entry per group.
C2_ControlOmitted ==
    df_test_control = None =>
        /\ pc # "call" => results_control = PyList(<<>>)
        /\ \A c \in 1..Len(calls) : calls[c].X # "df_test_control"
        /\ pc = "done" =>
              /\ returned.control = PyList(<<>>)
              /\ returned.control # None
              /\ Len(returned.disease.items) = Len(feature_sets)
              /\ \A idx \in 1..Len(returned.disease.items) :
                    \A j \in 1..Len(returned.disease.items[idx]) :
                       returned.disease.items[idx][j].table = "df_test_disease"

C2_Witness ==
    /\ pc = "done"
    /\ df_test_control = None
    /\ Len(returned.disease.items) = 7

\* C3: a failing statement ends the call with its exception: nothing is
\* returned, the loop stands at the failing iteration and no call of a later
\* iteration was made; whatever is returned is complete and in group order.
C3_FailureAborts ==
    /\ error # None =>
          /\ pc = "raised"
          /\ returned = None
          /\ i = error.iter
          /\ \A c \in 1..Len(calls) : calls[c].iter <= error.iter
          /\ Len(results_disease.items) \in {error.iter - 1, error.iter}
          /\ Len(results_control.items) \in {0, error.iter - 1}
    /\ pc = "raised" => error # None
    /\ returned # None =>
          /\ error = None
          /\ OrderedByGroup(returned.disease)
          /\ returned.control.tag = "list"
          /\ Len(returned.control.items) \in {0, 7}
          /\ \A idx \in 1..Len(returned.control.items) :
                MadeWithout(returned.control.items[idx], feature_sets[idx])

C3_Witness ==
    /\ pc = "raised"
    /\ error.iter = 3
    /\ error.type = "KeyError"
    /\ Len(results_disease.items) = 2
    /\ returned = None

BadModelType == model_type \notin {"ridge", "svm"}

\* C4, as claimed: whenever train_model is called with a model_type other than
\* 'ridge' and 'svm', the exception it ends with is the one that names
\* model_type.
C4_AsClaimed ==
    (BadModelType /\ error # None /\ error.at \in TrainSites) =>
        /\ error.type = "ValueError"
        /\ error.at = "model_type"
        /\ error.msg[2] = model_type

\* C4, amended: with a model_type other than 'ridge' and 'svm' train_model
\* never returns a (model, scaler) pair, and the call of
\* evaluate_feature_ablation fails in the first iteration with both result
\* lists empty; the exception of train_model is the ValueError naming
\* model_type whenever the scaler could be fitted on the training features
\* (they have at least one row), and the scaler's own ValueError otherwise.
C4_UnsupportedModel ==
    BadModelType =>
        /\ model = None
        /\ scaler = None
        /\ returned = None
        /\ i <= 1
        /\ pc # "call" => results_disease = PyList(<<>>) /\ results_control = PyList(<<>>)
        /\ \A c \in 1..Len(calls) : calls[c].fn # "train_model"
        /\ pc \notin {"l145", "l148", "l153", "done"}
        /\ (error # None /\ error.at \in TrainSites) =>
              /\ error.type = "ValueError"
              /\ error.iter = 1
              /\ IF Len(df_train_control.rows) >= 1
                 THEN error.at = "model_type" /\ error.msg[2] = model_type
                 ELSE error.at = "scaler.fit_transform"

C4_Witness ==
    /\ BadModelType
    /\ pc = "raised"
    /\ error.at = "model_type"
    /\ error.msg = <<"Unsupported model type: ", "lasso">>
    /\ Len(df_train_control.rows) = 1

\* C5, as claimed: with a scaler_type other than 'minmax' and 'standard'
\* train_model fits no scaler and no model and returns no pair.
C5_AsClaimed ==
    scalar_type \notin {"minmax", "standard"} =>
        /\ scaler = None
        /\ model = None
        /\ returned = None

\* the predictions of res are those of the rows of df, in row order
RowsOf(res, df) ==
    /\ Len(res) = Len(df.rows)
    /\ \A j \in 1..Len(res) : res[j].row = df.rows[j] /\ res[j].table = df.name

\* C9: every entry of the disease list holds one prediction per row of the
\* disease cohort, prediction j for row j, and every entry of the control
\* list one per row of the control cohort; neither list holds a prediction of
\* the other cohort. This holds of the lists as they grow and as returned.
C9_RowAlignment ==
    /\ pc \notin {"call", "idle"} =>
          /\ \A idx \in 1..Len(results_disease.items) :
                RowsOf(results_disease.items[idx], df_test_disease)
          /\ \A idx \in 1..Len(results_control.items) :
                /\ df_test_control # None
                /\ RowsOf(results_control.items[idx], df_test_control)
    /\ pc = "done" =>
          /\ Len(returned.disease.items) = 7
          /\ \A idx \in 1..7 : RowsOf(returned.disease.items[idx], df_test_disease)
          /\ df_test_control # None =>
                /\ Len(returned.control.items) = 7
                /\ \A idx \in 1..7 :
                      RowsOf(returned.control.items[idx], df_test_control)

C9_Witness ==
    /\ pc = "done"
    /\ df_test_control # None
    /\ Len(df_test_disease.rows) = 2
    /\ Len(df_test_control.rows) = 1
    /\ Len(returned.disease.items[7]) = 2
    /\ Len(returned.control.items[7]) = 1

\* C10: no step of evaluate_feature_ablation, succeeding or failing, changes
\* the training, disease or control table or the feature-group column lists.
C10_InputsUnchanged ==
    [][/\ df_train_control' = df_train_control
       /\ df_test_disease' = df_test_disease
       /\ df_test_control' = df_test_control
       /\ groups' = groups]_vars

C10_Witness ==
    /\ pc = "raised"
    /\ error.at = "l150"
    /\ Len(results_disease.items) = 1
    /\ X_train_control.cols # df_train_control.cols
    /\ X_test_disease.cols # df_test_disease.cols
    /\ df_train_control.cols = AllCols
    /\ df_test_disease.cols = AllCols

-----------------------------------------------------------------------------
(* Properties of calculate_mae and the report loop (checked under SpecMae) *)

\* the scores computed so far
Scores == IF mae_results = None THEN <<>> ELSE mae_results.items

SameLength(idx) == Len(predictions_list[idx]) = Len(y_test.vals)

\* the sum of |p[j] - t[j]| over j = 1..n
RECURSIVE SumAbsDiff(_, _, _)
SumAbsDiff(p, t, n) ==
    IF n = 0 THEN 0
    ELSE SumAbsDiff(p, t, n - 1)
         + (IF p[n] >= t[n] THEN p[n] - t[n] ELSE t[n] - p[n])

\* C6, as claimed: when some prediction array and y_test differ in length, no
\* score is ever computed from such a pair and calculate_mae returns nothing.
C6_AsClaimed ==
    /\ \A idx \in 1..Len(Scores) : SameLength(idx)
    /\ (\E idx \in 1..Len(predictions_list) : ~SameLength(idx)) =>
          mae_returned = None

\* C7, as claimed: for a prediction array of the length of y_test the score is
\* the mean of the elementwise absolute differences, is non-negative, and is
\* zero exactly when the two agree elementwise.
C7_AsClaimed ==
    \A idx \in 1..Len(Scores) :
       SameLength(idx) =>
          /\ Scores[idx].tag = "float"
          /\ Scores[idx] = Float(SumAbsDiff(predictions_list[idx], y_test.vals,
                                            Len(y_test.vals)),
                                 Len(y_test.vals))
          /\ Scores[idx].num >= 0
          /\ Scores[idx].num = 0 <=> predictions_list[idx] = y_test.vals

\* C7, amended: for a prediction array of the length of y_test, with at least
\* one element, the score is the mean of the elementwise absolute differences
\* (their sum over their number), is non-negative, and is zero exactly when
\* the two agree elementwise; this holds of the scores as they are appended and
\* as returned.
C7_MeanAbsoluteError ==
    /\ \A idx \in 1..Len(Scores) :
          (SameLength(idx) /\ Len(y_test.vals) >= 1) =>
             /\ Scores[idx].tag = "float"
             /\ Scores[idx] = Float(SumAbsDiff(predictions_list[idx], y_test.vals,
                                               Len(y_test.vals)),
                                    Len(y_test.vals))
             /\ Scores[idx].num >= 0
             /\ Scores[idx].den >= 1
             /\ Scores[idx].num = 0 <=> predictions_list[idx] = y_test.vals
    /\ mae_returned # None => mae_returned.items = Scores

C7_Witness ==
    /\ mpc = "done"
    /\ Len(y_test.vals) = 2
    /\ Len(predictions_list) = 2
    /\ SameLength(1) /\ SameLength(2)
    /\ mae_returned.items[1].num = 0
    /\ mae_returned.items[2] = Float(2, 2)

\* the score calculate_mae computes for one prediction array
ScoreOf(predictions) == np_mean(np_abs(subtract(predictions, y_test).out))

\* C8: the scores are in input order, one per prediction array: while the loop
\* runs score idx is that of array idx, the returned list has the length of
\* the input, and the report prints score idx beside the idx-th name of
\* feature_sets, one line per group for a list of seven arrays.
C8_ScoreOrder ==
    /\ \A idx \in 1..Len(Scores) : Scores[idx] = ScoreOf(predictions_list[idx])
    /\ mpc = "l168" => Len(Scores) = k - 1
    /\ mae_returned # None =>
          /\ Len(mae_returned.items) = Len(predictions_list)
          /\ \A idx \in 1..Len(predictions_list) :
                mae_returned.items[idx] = ScoreOf(predictions_list[idx])
    /\ \A idx \in 1..Len(printed) :
          /\ printed[idx].name = feature_sets[idx]
          /\ printed[idx].value = format3(ScoreOf(predictions_list[idx]))
    /\ mpc = "done" =>
          Len(printed) = zip_len(feature_sets, predictions_list)

C8_Witness ==
    /\ mpc = "done"
    /\ Len(predictions_list) = 7
    /\ Len(printed) = 7
    /\ y_test.vals = <<40>>
    /\ printed[1].value.thousandths = 1000
    /\ printed[2].value.thousandths = 0
    /\ printed[7].name = "cortical_thickness"
    /\ printed[7].value.thousandths = 1000

-----------------------------------------------------------------------------
(* Properties of the iterations taken in any order (checked under           *)
(* SpecAnyOrder)                                                            *)

\* what the iteration on the idx-th group yields when it is run alone, from
\* the arguments of the call and nothing else: the fitted pair and the
\* predictions for a cohort
AloneFit(idx) ==
    train_model(drop_astype(df_train_control, groups[LoopOrder[idx]]).out,
                getitem(df_train_control, "Age at Visit").out,
                model_type, scalar_type)

AlonePredict(idx, df) ==
    LET fit == AloneFit(idx) IN
    predict_ages(fit.model, fit.scaler,
                 drop_astype(df, groups[LoopOrder[idx]]).out).out

\* the position at which the iteration on the idx-th group was started
PositionOf(idx) ==
    CHOOSE p \in 1..Len(Started(calls)) : Started(calls)[p] = idx

\* the result lists with each result placed at the index of its group
PlacedDisease == [idx \in 1..NGroups |-> results_disease.items[PositionOf(idx)]]

PlacedControl == [idx \in 1..NGroups |-> results_control.items[PositionOf(idx)]]

-----------------------------------------------------------------------------
(* C12: one fit per iteration, predictions with that iteration's pair *)

\* the positions in the call log of the train_model calls of iteration j
TrainCalls(j) ==
    {c \in 1..Len(calls) : calls[c].fn = "train_model" /\ calls[c].iter = j}

\* the positions in the call log of the predict_ages calls
PredictCalls == {c \in 1..Len(calls) : calls[c].fn = "predict_ages"}

\* the pair returned by the train_model call of iteration j
PairOf(j) ==
    LET c == CHOOSE t \in TrainCalls(j) : TRUE IN
    [model |-> calls[c].model, scaler |-> calls[c].scaler]

\* every prediction of the p-th entry of a result list was made by the pair
\* of the p-th iteration
MadeByPair(results) ==
    \A p \in 1..Len(results.items) :
        \A j \in 1..Len(results.items[p]) :
            /\ results.items[p][j].model = PairOf(p).model
            /\ results.items[p][j].scaler = PairOf(p).scaler

\* C12: every iteration calls train_model exactly once; the model and the
\* scaler are fitted in that call only, on the training features; every
\* predict_ages call of the iteration, for the disease cohort and for the
\* control cohort, is given the pair that call returned, and the predictions
\* come from that very pair: the scaler that transformed the rows is still
\* the one fitted on the training table.
C12_OneFitPerIteration ==
    pc \notin {"call", "idle"} =>
        /\ \A j \in 1..NGroups :
              Cardinality(TrainCalls(j)) =
                 IF \/ j < i
                    \/ j = i /\ pc \in {"l145", "l148", "l153", "done"}
                    \/ j = i /\ pc = "raised" /\ error.at \in {"l145", "l149", "l150"}
                 THEN 1 ELSE 0
        /\ \A j \in 1..NGroups : \A c \in TrainCalls(j) :
              /\ calls[c].X = "df_train_control"
              /\ calls[c].scaler = Fitted(scaler_for(scalar_type),
                                          [name |-> "df_train_control",
                                           cols |-> calls[c].cols,
                                           rows |-> df_train_control.rows])
              /\ calls[c].scaler.fit_on = "df_train_control"
              /\ calls[c].model.fit_on = "df_train_control"
              /\ calls[c].model.feature_names_in_ = calls[c].scaler.feature_names_in_
        /\ \A c \in PredictCalls :
              /\ TrainCalls(calls[c].iter) # {}
              /\ \A t \in TrainCalls(calls[c].iter) : t < c
              /\ calls[c].model = PairOf(calls[c].iter).model
              /\ calls[c].scaler = PairOf(calls[c].iter).scaler
        /\ pc \in {"l145", "l148"} =>
              /\ model = PairOf(i).model
              /\ scaler = PairOf(i).scaler
        /\ MadeByPair(results_disease)
        /\ MadeByPair(results_control)

C12_Witness ==
    /\ pc = "done"
    /\ df_test_control # None
    /\ Len(calls) = 3 * NGroups
    /\ Cardinality(PredictCalls) = 2 * NGroups
    /\ Cardinality({PairOf(j) : j \in 1..NGroups}) > 1
    /\ Len(returned.control.items) = NGroups

-----------------------------------------------------------------------------
(* C13: the columns an iteration removes, the training target *)

\* the labels passed to drop in iteration j
Removed(j) == Range(NonFeature) \cup Range(groups[LoopOrder[j]])

\* the argument of the call the table of that name was passed in
CohortNamed(name) ==
    IF name = "df_train_control" THEN df_train_control
    ELSE IF name = "df_test_disease" THEN df_test_disease
    ELSE df_test_control

\* X is df without exactly the columns iteration j removes: all of them were
\* there and are gone, every other column, those of the six other groups
\* among them, is still there
DroppedFrom(df, Xcols, j) ==
    /\ df.cols \ Xcols = Removed(j)
    /\ Xcols = df.cols \ Removed(j)
    /\ \A g \in DOMAIN groups :
          g # LoopOrder[j] => Range(groups[g]) \cap df.cols \subseteq Xcols

\* df_train_control['Age at Visit']
AgeOfTrain ==
    [name |-> "df_train_control", col |-> "Age at Visit",
     rows |-> df_train_control.rows]

\* C13: the feature tables of an iteration are the cohort tables without
\* exactly the three non-feature columns and the columns of the current
\* group; the training table, the disease table and, when a control cohort
\* is supplied, the control table of an iteration lose the same set; the
\* columns of the six other groups stay; the target the model is fitted to
\* is the age column of the training cohort.
C13_ColumnsRemoved ==
    /\ pc \in {"l141", "l142", "l144", "l145", "l148"} =>
          DroppedFrom(df_train_control, X_train_control.cols, i)
    /\ pc \in {"l142", "l144", "l145", "l148"} =>
          DroppedFrom(df_test_disease, X_test_disease.cols, i)
    /\ pc \in {"l144", "l145", "l148"} => y_train_control = AgeOfTrain
    /\ \A c \in 1..Len(calls) :
          /\ DroppedFrom(CohortNamed(calls[c].X), calls[c].cols, calls[c].iter)
          /\ calls[c].model.target = AgeOfTrain
          /\ calls[c].fn = "train_model" => calls[c].y = AgeOfTrain
          /\ \A d \in 1..Len(calls) :
                calls[d].iter = calls[c].iter =>
                    CohortNamed(calls[d].X).cols \ calls[d].cols
                       = CohortNamed(calls[c].X).cols \ calls[c].cols

C13_Witness ==
    /\ pc = "l140"
    /\ i = 3
    /\ df_test_control # None
    /\ Len(calls) = 6
    /\ {calls[c].X : c \in 4..6}
          = {"df_train_control", "df_test_disease", "df_test_control"}
    /\ \A c \in 4..6 :
          calls[c].cols = FeatureCols \ Range(groups["dti"])
    /\ Range(groups["cbf"]) \subseteq calls[6].cols
====
